---- MODULE Spec2Model ----
(***************************************************************************)
(* Model of sverchok/core/events.py: the process-wide wave of Blender      *)
(* update events kept by CurrentEvents, its end-of-wave test and the       *)
(* conversion of a finished wave into one Sverchok event.                  *)
(*                                                                         *)
(* One call of CurrentEvents.new_event is modelled by the steps            *)
(*   NewEvent      lines 97-102 (filter, append, per-event print)          *)
(*   WaveEnd       lines 103-104 (is_wave_end, convert_wave_to_...)        *)
(*   ClearWave     line 105 (events_wave.clear)                            *)
(* The host is single threaded: a call runs to its end before the next     *)
(* call or a change of the preferences can happen (pc = "idle").           *)
(*                                                                         *)
(* DirectSpec adds the direct uses of class Event: a call of               *)
(* get_sverchok_type_event and a comparison with ==, on operands drawn     *)
(* from small sets (pc = "direct", then "done").                           *)
(***************************************************************************)
EXTENDS Naturals, Sequences, FiniteSets

VARIABLES
    events_wave,   \* CurrentEvents.events_wave: the list of Event tuples
    log_debug,     \* prefs.log_level == "DEBUG", as read by is_in_debug_mode
    pc,            \* position inside new_event: "idle", "appended", "converted"
    call,          \* arguments of the current (pc # "idle") or last new_event call
    printed,       \* lines written to stdout by the current or last call
    raised,        \* exception that ended the last call, NoError if it returned
    operands,      \* operands of a direct use of class Event, <<>> otherwise
    result         \* outcome of the direct use once done, <<>> before

vars == <<events_wave, log_debug, pc, call, printed, raised, operands, result>>

-----------------------------------------------------------------------------
(* Bounds of the model *)

\* non wave-ending events are accepted while the wave holds fewer records
MaxOpen == 3

-----------------------------------------------------------------------------
(* Enumerations and the conversion table *)

BlenderEvents ==
    {"tree_update", "monad_tree_update", "node_update", "add_node", "copy_node",
     "free_node", "add_link_to_node", "node_property_update", "undo"}

SverchokEvents ==
    {"add_node", "copy_nodes", "free_nodes", "node_property_update",
     "node_link_update", "undo", "undefined"}

EVENT_CONVERSION ==
    [k \in BlenderEvents |->
        CASE k = "tree_update"          -> "undefined"
          [] k = "monad_tree_update"    -> "undefined"
          [] k = "node_update"          -> "undefined"
          [] k = "add_node"             -> "add_node"
          [] k = "copy_node"            -> "copy_nodes"
          [] k = "free_node"            -> "free_nodes"
          [] k = "add_link_to_node"     -> "node_link_update"
          [] k = "node_property_update" -> "node_property_update"
          [] k = "undo"                 -> "undo"]

-----------------------------------------------------------------------------
(* Updated elements: nodes, a tree, or None *)

None == [py_type |-> "NoneType"]

n1 == [bl_idname |-> "SvMergeMesh2DLight", name |-> "Merge mesh 2D light"]
n2 == [bl_idname |-> "SvMergeMesh2DLight", name |-> "Merge mesh 2D light.001"]
n3 == [bl_idname |-> "SvMergeMesh2DLight", name |-> "Merge mesh 2D light.002"]
T  == [bl_idname |-> "SverchCustomTreeType", name |-> "NodeTree"]

Nodes == {n1, n2, n3}
Trees == {T}

TreeEvents == {"tree_update", "monad_tree_update"}

\* the event that reaches the wave once per node of a multi-node action
MultiNodeEvents == {"copy_node"}

\* the element a caller passes with an event: the tree itself for the tree
\* events, a node or nothing (the default of the parameter) for the others
ElementsOf(event_type) ==
    IF event_type \in TreeEvents THEN Trees
    ELSE IF event_type \in MultiNodeEvents THEN Nodes \cup {None}
    ELSE {n1, None}

\* the wave-ending event types, as the specification of the wave names them
Terminating == {"tree_update", "node_property_update", "monad_tree_update"}

NoError == "no error"
NoCall == [type |-> "no call", updated_element |-> None]

-----------------------------------------------------------------------------
(* class Event *)

Event(type, updated_element) == [type |-> type, updated_element |-> updated_element]

\* the lookup with a default, EVENT_CONVERSION.get(self.type, undefined):
\* a type that is not in the table converts to undefined (mutant)
get_sverchok_type_event_default(self) ==
    IF self.type \in DOMAIN EVENT_CONVERSION
    THEN EVENT_CONVERSION[self.type]
    ELSE "undefined"

\* the message of the KeyError of get_sverchok_type_event
KeyError_args(self) ==
    <<"For Blender event type=", self.type, " Sverchek event is undefined">>

\* Event.get_sverchok_type_event: the table value, or KeyError
get_sverchok_type_event(self) ==
    IF self.type \in DOMAIN EVENT_CONVERSION
    THEN EVENT_CONVERSION[self.type]
    ELSE "KeyError"

\* Event.__eq__(self, other) with other a member of BlenderEvents:
\* self.type == other, the comparison of two enum members
Event_eq(self, other) == self.type = other

\* equality of the whole tuples, element included, as NamedTuple has it
\* without the __eq__ of the class (mutant)
Event_eq_Event_tuple(self, other) == self = other

\* Event.__eq__(self, other) with other an Event: self.type == other is
\* NotImplemented for the enum member, so Python evaluates the reflected
\* other.__eq__(self.type)
Event_eq_Event(self, other) == Event_eq(other, self.type)

-----------------------------------------------------------------------------
(* The print methods: a line is the sequence of its formatted fields *)

\* BlenderEvents.print
BlenderEvents_print(self, updated_element) ==
    LET event_name == <<"EVENT:", self>>
        element_data ==
            IF updated_element # None
            THEN <<"IN:", updated_element.bl_idname,
                   "INSTANCE:", updated_element.name>>
            ELSE <<>>
    IN event_name \o element_data

\* [el.name for el in updated_elements]: None has no attribute name
NamesRaise(updated_elements) ==
    \E i \in 1..Len(updated_elements) : updated_elements[i] = None

ElementNames(updated_elements) ==
    [i \in 1..Len(updated_elements) |-> updated_elements[i].name]

\* SverchokEvents.print; has_elements is "updated_elements is not None".
\* The result is the printed line, or the exception raised before printing.
SverchokEvents_print(self, has_elements, updated_elements) ==
    LET event_name == <<"SVERCHOK EVENT:", self>>
    IN  IF has_elements
        THEN IF NamesRaise(updated_elements)
             THEN [raised |-> "AttributeError", lines |-> <<>>]
             ELSE [raised |-> NoError,
                   lines |-> <<event_name \o <<"NODES:">>
                                          \o ElementNames(updated_elements)>>]
        ELSE [raised |-> NoError, lines |-> <<event_name>>]

-----------------------------------------------------------------------------
(* class CurrentEvents *)

sign_of_wave_end == <<"tree_update", "node_property_update", "monad_tree_update">>

\* CurrentEvents.is_wave_end: events_wave[-1] in sign_of_wave_end
is_wave_end(wave) ==
    \E i \in 1..Len(sign_of_wave_end) : Event_eq(wave[Len(wave)], sign_of_wave_end[i])

\* filter(lambda ev: ev == first, wave): every event of the first one's type,
\* wherever it is in the wave (mutant)
RECURSIVE takewhile_filter(_, _)
takewhile_filter(first, wave) ==
    IF wave = <<>> THEN <<>>
    ELSE IF Event_eq_Event(Head(wave), first)
         THEN <<Head(wave)>> \o takewhile_filter(first, Tail(wave))
         ELSE takewhile_filter(first, Tail(wave))

\* itertools.takewhile(lambda ev: ev == first, wave)
RECURSIVE takewhile(_, _)
takewhile(first, wave) ==
    IF wave = <<>> THEN <<>>
    ELSE IF Event_eq_Event(Head(wave), first)
         THEN <<Head(wave)>> \o takewhile(first, Tail(wave))
         ELSE <<>>

\* [ev.updated_element for ev in all_events_of_such_type]
UpdatedElements(events) == [i \in 1..Len(events) |-> events[i].updated_element]

\* the conversion without the branch for SverchokEvents.undefined (mutant)
convert_wave_always_elements(wave, debug) ==
    LET sverchok_event_type == get_sverchok_type_event(wave[1])
    IN  IF debug
        THEN SverchokEvents_print(sverchok_event_type, TRUE,
                                  UpdatedElements(takewhile(wave[1], wave)))
        ELSE [raised |-> NoError, lines |-> <<>>]

\* CurrentEvents.convert_wave_to_sverchok_event: what it prints and whether
\* it raises
convert_wave_to_sverchok_event(wave, debug) ==
    LET sverchok_event_type == get_sverchok_type_event(wave[1])
    IN  IF sverchok_event_type = "KeyError"
        THEN [raised |-> "KeyError", lines |-> <<>>]
        ELSE IF debug
        THEN IF sverchok_event_type = "undefined"
             THEN SverchokEvents_print(sverchok_event_type, FALSE, <<>>)
             ELSE LET all_events_of_such_type == takewhile(wave[1], wave)
                  IN SverchokEvents_print(sverchok_event_type, TRUE,
                                          UpdatedElements(all_events_of_such_type))
        ELSE [raised |-> NoError, lines |-> <<>>]

-----------------------------------------------------------------------------
(* State machine *)

Init ==
    /\ events_wave = <<>>
    /\ log_debug \in BOOLEAN
    /\ pc = "idle"
    /\ call = NoCall
    /\ printed = <<>>
    /\ raised = NoError
    /\ operands = <<>>
    /\ result = <<>>

\* the user changes the log level in the preferences between two calls
SetLogLevel ==
    /\ pc = "idle"
    /\ log_debug' = ~log_debug
    /\ UNCHANGED <<events_wave, pc, call, printed, raised, operands, result>>

\* the bound of the model: the wave holds at most MaxOpen records when an
\* event arrives, and MaxOpen records only when the event is a wave-ending one
WithinBound(event_type) ==
    \/ Len(events_wave) < MaxOpen
    \/ Len(events_wave) = MaxOpen /\ event_type \in Terminating

\* new_event without the filter of node_update (mutant)
NewEvent_NoFilter(event_type, updated_element) ==
    /\ pc = "idle"
    /\ call' = Event(event_type, updated_element)
    /\ raised' = NoError
    /\ WithinBound(event_type)
    /\ events_wave' = Append(events_wave, Event(event_type, updated_element))
    /\ printed' = IF log_debug
                  THEN <<BlenderEvents_print(event_type, updated_element)>>
                  ELSE <<>>
    /\ pc' = "appended"
    /\ UNCHANGED <<log_debug, operands, result>>

\* new_event that reaches the end-of-wave test without having appended the
\* event (mutant)
NewEvent_NoAppend(event_type, updated_element) ==
    /\ pc = "idle"
    /\ call' = Event(event_type, updated_element)
    /\ raised' = NoError
    /\ IF event_type = "node_update"
       THEN /\ printed' = <<>>
            /\ UNCHANGED <<events_wave, pc>>
       ELSE /\ WithinBound(event_type)
            /\ events_wave' = events_wave
            /\ printed' = IF log_debug
                          THEN <<BlenderEvents_print(event_type, updated_element)>>
                          ELSE <<>>
            /\ pc' = "appended"
    /\ UNCHANGED <<log_debug, operands, result>>

\* new_event that prints, in debug mode, the line of every record of the
\* wave and not only the line of the new one (mutant)
NewEvent_Replay(event_type, updated_element) ==
    /\ pc = "idle"
    /\ call' = Event(event_type, updated_element)
    /\ raised' = NoError
    /\ IF event_type = "node_update"
       THEN /\ printed' = <<>>
            /\ UNCHANGED <<events_wave, pc>>
       ELSE /\ WithinBound(event_type)
            /\ events_wave' = Append(events_wave, Event(event_type, updated_element))
            /\ printed' = IF log_debug
                          THEN [i \in 1..Len(events_wave') |->
                                  BlenderEvents_print(events_wave'[i].type,
                                                      events_wave'[i].updated_element)]
                          ELSE <<>>
            /\ pc' = "appended"
    /\ UNCHANGED <<log_debug, operands, result>>

\* new_event, lines 97-102: the filter of node_update, the append and the
\* per-event print
NewEvent(event_type, updated_element) ==
    /\ pc = "idle"
    /\ call' = Event(event_type, updated_element)
    /\ raised' = NoError
    /\ IF event_type = "node_update"
       THEN /\ printed' = <<>>
            /\ UNCHANGED <<events_wave, pc>>
       ELSE /\ WithinBound(event_type)
            /\ events_wave' = Append(events_wave, Event(event_type, updated_element))
            /\ printed' = IF log_debug
                          THEN <<BlenderEvents_print(event_type, updated_element)>>
                          ELSE <<>>
            /\ pc' = "appended"
    /\ UNCHANGED <<log_debug, operands, result>>

\* the end-of-wave test and the conversion placed before the print of the
\* event, so that the reduced event comes out first (mutant)
WaveEnd_PrintsFirst ==
    /\ pc = "appended"
    /\ IF is_wave_end(events_wave)
       THEN LET res == convert_wave_to_sverchok_event(events_wave, log_debug)
            IN /\ printed' = res.lines \o printed
               /\ raised' = res.raised
               /\ pc' = IF res.raised = NoError THEN "converted" ELSE "idle"
       ELSE /\ pc' = "idle"
            /\ UNCHANGED <<printed, raised>>
    /\ UNCHANGED <<events_wave, log_debug, call, operands, result>>

\* new_event, lines 103-104: the end-of-wave test and the conversion
WaveEnd ==
    /\ pc = "appended"
    /\ IF is_wave_end(events_wave)
       THEN LET res == convert_wave_to_sverchok_event(events_wave, log_debug)
            IN /\ printed' = printed \o res.lines
               /\ raised' = res.raised
               /\ pc' = IF res.raised = NoError THEN "converted" ELSE "idle"
       ELSE /\ pc' = "idle"
            /\ UNCHANGED <<printed, raised>>
    /\ UNCHANGED <<events_wave, log_debug, call, operands, result>>

\* new_event, line 105
ClearWave ==
    /\ pc = "converted"
    /\ events_wave' = <<>>
    /\ pc' = "idle"
    /\ UNCHANGED <<log_debug, call, printed, raised, operands, result>>

Next ==
    \/ SetLogLevel
    \/ \E event_type \in BlenderEvents :
          \E updated_element \in ElementsOf(event_type) :
             NewEvent(event_type, updated_element)
    \/ WaveEnd
    \/ ClearWave

Spec == Init /\ [][Next]_vars

-----------------------------------------------------------------------------
(* Direct uses of class Event *)

\* types an Event can be built with that are no members of BlenderEvents
OtherTypes == {"frame_change", "free_link"}

DirectElements == {n1, T, None}

\* a member of BlenderEvents as an operand of ==
Member(type) == [member |-> type]

IsEvent(x) == DOMAIN x = {"type", "updated_element"}

EventOperands ==
    {Event(type, element) : type \in BlenderEvents, element \in DirectElements}

CompareOperands == EventOperands \cup {Member(type) : type \in BlenderEvents}

ClassifyOperands ==
    {Event(type, element) :
        type \in BlenderEvents \cup OtherTypes, element \in DirectElements}

\* left == right as Python evaluates it: Event.__eq__ of the left operand,
\* or, when the left operand is an enum member and the right one an Event,
\* the reflected Event.__eq__ of the right operand; two members are equal
\* when they are the same member
Py_eq(left, right) ==
    IF IsEvent(left)
    THEN IF IsEvent(right)
         THEN Event_eq_Event(left, right)
         ELSE Event_eq(left, right.member)
    ELSE IF IsEvent(right)
         THEN Event_eq(right, left.member)
         ELSE left.member = right.member

InitDirect ==
    /\ events_wave = <<>>
    /\ log_debug \in BOOLEAN
    /\ pc = "direct"
    /\ call = NoCall
    /\ printed = <<>>
    /\ raised = NoError
    /\ \/ \E e \in ClassifyOperands : operands = <<e>>
       \/ \E a, b \in CompareOperands : operands = <<a, b>>
    /\ result = <<>>

\* operands[1].get_sverchok_type_event()
Classify ==
    /\ pc = "direct"
    /\ Len(operands) = 1
    /\ LET value == get_sverchok_type_event(operands[1])
       IN result' = IF value = "KeyError"
                    THEN <<"KeyError">> \o KeyError_args(operands[1])
                    ELSE <<"return", value>>
    /\ pc' = "done"
    /\ UNCHANGED <<events_wave, log_debug, call, printed, raised, operands>>

\* operands[1] == operands[2]
Compare ==
    /\ pc = "direct"
    /\ Len(operands) = 2
    /\ result' = <<"return", IF Py_eq(operands[1], operands[2])
                             THEN "True" ELSE "False">>
    /\ pc' = "done"
    /\ UNCHANGED <<events_wave, log_debug, call, printed, raised, operands>>

NextDirect ==
    \/ Next
    \/ Classify
    \/ Compare

DirectSpec == (Init \/ InitDirect) /\ [][NextDirect]_vars

-----------------------------------------------------------------------------
(* Vocabulary of the properties *)

\* a line of SverchokEvents.print: the reduced event of a wave
IsReduced(line) == line[1] = "SVERCHOK EVENT:"

\* number of reduced events among the lines
ReducedCount(lines) == Cardinality({i \in 1..Len(lines) : IsReduced(lines[i])})

\* the step ends a call of new_event (normally or by an exception)
Returns ==
    /\ pc' = "idle"
    /\ \/ pc # "idle"
       \/ call'.type = "node_update" /\ log_debug' = log_debug

\* a call of new_event has ended and it was not a filtered one
Returned == pc = "idle" /\ call # NoCall /\ call.type # "node_update"

-----------------------------------------------------------------------------
(* C1 *)

\* C1: after a call new_event(k, s) with k other than node_update has ended,
\* the wave is drained if and only if k is tree_update, node_property_update
\* or monad_tree_update; for every other k the wave is open and its last
\* record is the one the call appended.
C1_ClosesIffTerminating ==
    Returned =>
        /\ (events_wave = <<>>) <=> (call.type \in Terminating)
        /\ call.type \notin Terminating =>
              /\ events_wave # <<>>
              /\ events_wave[Len(events_wave)] = call

-----------------------------------------------------------------------------
(* C2 *)

\* C2: right after any call whose event type is wave-ending the wave is
\* empty, whatever it held before, whatever the elements of its records
\* (None included) and whatever the log level.
C2_EmptyAfterTermination ==
    (pc = "idle" /\ call.type \in Terminating) => events_wave = <<>>

-----------------------------------------------------------------------------
(* C3 *)

\* C3: in every state the wave is a run of records of non wave-ending type
\* followed by at most one record of wave-ending type, which is then the
\* last record: nothing is ever appended behind a wave-ending record.
C3_WaveShape ==
    \A i \in 1..Len(events_wave) :
        events_wave[i].type \in Terminating => i = Len(events_wave)

-----------------------------------------------------------------------------
(* C4 *)

\* C4: a call new_event(node_update, s) leaves the wave as it was, prints
\* neither an event line nor a reduced event, and runs neither the
\* end-of-wave test nor the clear (the call ends in the same step), for
\* every element s and both log levels.
C4_NodeUpdateFiltered ==
    [][(pc = "idle" /\ call'.type = "node_update")
          => /\ events_wave' = events_wave
             /\ printed' = <<>>
             /\ pc' = "idle"
             /\ raised' = NoError]_vars

\* a node_update call has ended on an open wave, in debug mode
C4_Witness ==
    /\ pc = "idle"
    /\ call = Event("node_update", n1)
    /\ log_debug
    /\ Len(events_wave) = 2
    /\ printed = <<>>

-----------------------------------------------------------------------------
(* C5 *)

\* C5: in debug mode every call that ends has printed exactly one reduced
\* event if its event type is wave-ending, and none otherwise (so the number
\* of reduced events equals the number of accepted wave-ending calls).
C5_OneEventPerClosedWave ==
    [][(Returns /\ log_debug)
          => ReducedCount(printed') =
                IF call'.type \in Terminating THEN 1 ELSE 0]_vars

-----------------------------------------------------------------------------
(* Vocabulary of the reduced event *)

\* the conversion has printed in debug mode and the wave is still in the buffer
Reducing == pc = "converted" /\ log_debug

\* the last line printed by the call
LastLine == printed[Len(printed)]

\* the event of a reduced line, and its list of element names
ReportEvent(line) == line[2]
HasNodes(line) == Len(line) >= 3 /\ line[3] = "NODES:"
ReportNodes(line) == SubSeq(line, 4, Len(line))

NameOf(element) == IF element = None THEN "(None)" ELSE element.name

\* n is the length of the maximal leading run of records of the first
\* record's type
IsLeadingRunLen(wave, n) ==
    /\ n \in 1..Len(wave)
    /\ \A i \in 1..n : wave[i].type = wave[1].type
    /\ n < Len(wave) => wave[n + 1].type # wave[1].type

\* names of the elements of the first n records
RunNames(wave, n) == [i \in 1..n |-> NameOf(wave[i].updated_element)]

\* first position of x in the sequence
FirstIndex(seq, x) == CHOOSE i \in 1..Len(seq) :
    seq[i] = x /\ \A j \in 1..(i - 1) : seq[j] # x

Range(seq) == {seq[i] : i \in 1..Len(seq)}

\* the first record of the wave converts to an event other than undefined
FirstIsDefined ==
    /\ events_wave # <<>>
    /\ events_wave[1].type \notin {"tree_update", "monad_tree_update", "node_update"}

-----------------------------------------------------------------------------
(* C6 *)

\* C6: when a wave whose first record converts to an event X other than
\* undefined is reduced, the reduced event is X and its elements are those of
\* the maximal leading run of records of the first record's type, position by
\* position: no record behind that run (of another type, of the same type
\* behind another type, or the wave-ending record) contributes an element.
C6_LeadingRunOnly ==
    (Reducing /\ FirstIsDefined) =>
        /\ IsReduced(LastLine)
        /\ ReportEvent(LastLine) = EVENT_CONVERSION[events_wave[1].type]
        /\ HasNodes(LastLine)
        /\ \E n \in 1..Len(events_wave) :
              /\ IsLeadingRunLen(events_wave, n)
              /\ ReportNodes(LastLine) = RunNames(events_wave, n)

\* the wave [A(s1), A(s2), B(s3), C(s4)] is reduced to X with [s1, s2]
C6_Witness ==
    /\ Reducing
    /\ events_wave = <<Event("copy_node", n1), Event("copy_node", n2),
                       Event("add_node", n1), Event("tree_update", T)>>
    /\ LastLine = <<"SVERCHOK EVENT:", "copy_nodes", "NODES:", n1.name, n2.name>>

-----------------------------------------------------------------------------
(* C7 *)

\* C7: the reduced event lists each element of the leading run at most once,
\* in order of first occurrence: an element carried by several records of
\* the run is listed once.
C7_DistinctSubjects ==
    (Reducing /\ FirstIsDefined) =>
        \E n \in 1..Len(events_wave) :
            /\ IsLeadingRunLen(events_wave, n)
            /\ LET nodes == ReportNodes(LastLine)
                   names == RunNames(events_wave, n)
               IN /\ \A i, j \in 1..Len(nodes) : i # j => nodes[i] # nodes[j]
                  /\ Range(nodes) = Range(names)
                  /\ \A i, j \in 1..Len(nodes) :
                        i < j => FirstIndex(names, nodes[i]) < FirstIndex(names, nodes[j])

-----------------------------------------------------------------------------
(* C8 *)

\* the wave is k >= 1 copy_node records of pairwise different nodes followed
\* by tree_update(T)
IsCopyWave(wave) ==
    /\ Len(wave) >= 2
    /\ wave[Len(wave)] = Event("tree_update", T)
    /\ \A i \in 1..(Len(wave) - 1) :
          /\ wave[i].type = "copy_node"
          /\ wave[i].updated_element \in Nodes
    /\ \A i, j \in 1..(Len(wave) - 1) :
          i # j => wave[i].updated_element # wave[j].updated_element

\* C8: in debug mode the calls copy_node(n1), ..., copy_node(nk),
\* tree_update(T) on an empty wave, with pairwise different nodes, print one
\* reduced event, copy_nodes, whose list is n1, ..., nk in arrival order.
C8_CopyGrouping ==
    (Reducing /\ IsCopyWave(events_wave)) =>
        /\ ReducedCount(printed) = 1
        /\ LastLine = <<"SVERCHOK EVENT:", "copy_nodes", "NODES:">>
                         \o RunNames(events_wave, Len(events_wave) - 1)

\* copy_node(n1), copy_node(n2), copy_node(n3), tree_update(T) was reduced
C8_Witness ==
    /\ Reducing
    /\ events_wave = <<Event("copy_node", n1), Event("copy_node", n2),
                       Event("copy_node", n3), Event("tree_update", T)>>
    /\ LastLine = <<"SVERCHOK EVENT:", "copy_nodes", "NODES:",
                    n1.name, n2.name, n3.name>>

-----------------------------------------------------------------------------
(* C9 *)

\* C9: when the first record of a wave that ends is of type tree_update or
\* monad_tree_update, the reduced event is undefined and is printed without
\* any list of elements, although the record carries the tree.
C9_UndefinedWithoutSubjects ==
    (Reducing /\ events_wave[1].type \in {"tree_update", "monad_tree_update"}) =>
        LastLine = <<"SVERCHOK EVENT:", "undefined">>

\* the wave [tree_update(T)] was reduced
C9_Witness ==
    /\ Reducing
    /\ events_wave = <<Event("tree_update", T)>>
    /\ IsReduced(LastLine)
    /\ ~HasNodes(LastLine)

-----------------------------------------------------------------------------
(* C10 *)

\* C10: in debug mode the conversion of a wave that is the single record
\* node_property_update(s) prints the event node_property_update with the
\* one-element list [s] when s is an element and with an empty list when
\* s is None.
C10_SingleTerminatingRecord ==
    [][(/\ pc = "appended"
        /\ log_debug
        /\ Len(events_wave) = 1
        /\ events_wave[1].type = "node_property_update")
          => printed' = Append(printed,
                <<"SVERCHOK EVENT:", "node_property_update", "NODES:">>
                   \o (IF events_wave[1].updated_element = None
                       THEN <<>>
                       ELSE <<events_wave[1].updated_element.name>>))]_vars

-----------------------------------------------------------------------------
(* C11 *)

\* C11: no call of new_event fails: whatever the event types, the elements
\* (None included) and the log level, every call returns without raising.
C11_NoCallFails == raised = NoError

-----------------------------------------------------------------------------
(* C12 *)

\* the classification table as the specification lists it
ClaimedClassification(type) ==
    CASE type = "add_node"             -> "add_node"
      [] type = "copy_node"            -> "copy_nodes"
      [] type = "free_node"            -> "free_nodes"
      [] type = "add_link_to_node"     -> "node_link_update"
      [] type = "node_property_update" -> "node_property_update"
      [] type = "undo"                 -> "undo"
      [] type \in {"tree_update", "monad_tree_update", "node_update"} -> "undefined"

\* C12: get_sverchok_type_event returns the listed value for each of the
\* nine declared event types, fails for any other type with an error that
\* carries the offending type, and never fails inside a call of new_event.
C12_ClassifyTotal ==
    /\ raised # "KeyError"
    /\ (pc = "done" /\ Len(operands) = 1) =>
          IF operands[1].type \in BlenderEvents
          THEN result = <<"return", ClaimedClassification(operands[1].type)>>
          ELSE /\ result[1] = "KeyError"
               /\ \E i \in 2..Len(result) : result[i] = operands[1].type

\* the classification of an event of an undeclared type has failed
C12_Witness ==
    /\ pc = "done"
    /\ operands = <<Event("frame_change", n1)>>
    /\ result[1] = "KeyError"

-----------------------------------------------------------------------------
(* C13 *)

\* the line of the per-event trace of a record
ExpectedRaw(event) ==
    <<"EVENT:", event.type>>
       \o (IF event.updated_element = None
           THEN <<>>
           ELSE <<"IN:", event.updated_element.bl_idname,
                  "INSTANCE:", event.updated_element.name>>)

\* C13: the log level is read at every call: a call made while it is not
\* DEBUG prints nothing, neither the event nor the reduced event; a call
\* made while it is DEBUG prints the line of its own record first and the
\* line of no other record of the wave, whenever those were appended.
C13_DebugReadFresh ==
    pc \in {"appended", "converted"} =>
        IF log_debug
        THEN /\ printed # <<>>
             /\ printed[1] = ExpectedRaw(call)
             /\ \A i \in 2..Len(printed) : IsReduced(printed[i])
             /\ pc = "converted" => Len(printed) = 2
        ELSE printed = <<>>

\* the third record of a wave was appended in debug mode: only its line
\* is printed
C13_Witness ==
    /\ pc = "appended"
    /\ log_debug
    /\ events_wave = <<Event("add_node", n1), Event("copy_node", n2),
                       Event("undo", None)>>
    /\ printed = <<<<"EVENT:", "undo">>>>

-----------------------------------------------------------------------------
(* C14 *)

\* C14: the log level is only observed: at the end-of-wave step of a call
\* the outcome (normal return or exception) is the one the same wave has
\* under the other log level, and the wave is cleared under both or under
\* neither.
C14_DebugObservational ==
    [][(pc = "appended" /\ is_wave_end(events_wave))
          => LET other == convert_wave_to_sverchok_event(events_wave, ~log_debug)
             IN /\ raised' = other.raised
                /\ (pc' = "converted") <=> (other.raised = NoError)]_vars

-----------------------------------------------------------------------------
(* C15 *)

\* the event type of an operand of ==
KindOf(x) == IF IsEvent(x) THEN x.type ELSE x.member

\* C15: == between two Event tuples, and between an Event tuple and a member
\* of BlenderEvents in either order, is True exactly when the event types are
\* the same, whatever the elements.
C15_EqualityByKind ==
    (pc = "done" /\ Len(operands) = 2) =>
        result = <<"return",
                   IF KindOf(operands[1]) = KindOf(operands[2])
                   THEN "True" ELSE "False">>

\* two events of one type with different elements were compared
C15_Witness ==
    /\ pc = "done"
    /\ operands = <<Event("copy_node", n1), Event("copy_node", T)>>
    /\ result = <<"return", "True">>

-----------------------------------------------------------------------------
(* C16 *)

\* C16: inside a call the steps come in the order append, print of the
\* event, end-of-wave test, conversion with the print of the reduced event,
\* clear: nothing but the event's own line is printed before the test, the
\* wave holds the call's record as its last one from the append until the
\* clear, and the wave is cleared only after the conversion, in debug mode
\* with the event's line first and the reduced event second.
C16_StepOrder ==
    /\ [](pc \in {"appended", "converted"} =>
             /\ events_wave # <<>>
             /\ events_wave[Len(events_wave)] = call
             /\ pc = "appended" => ReducedCount(printed) = 0)
    /\ [][events_wave' # events_wave =>
             \/ /\ pc = "idle"
                /\ pc' = "appended"
                /\ events_wave' = Append(events_wave, call')
             \/ /\ pc = "converted"
                /\ events_wave' = <<>>
                /\ call.type \in Terminating
                /\ log_debug =>
                      /\ Len(printed) = 2
                      /\ printed[1] = ExpectedRaw(call)
                      /\ IsReduced(printed[2])]_vars

\* the conversion of [add_node(n1), tree_update(T)] has printed and the
\* wave is not cleared yet
C16_Witness ==
    /\ pc = "converted"
    /\ log_debug
    /\ events_wave = <<Event("add_node", n1), Event("tree_update", T)>>
    /\ Len(printed) = 2
    /\ IsReduced(printed[2])

-----------------------------------------------------------------------------
(* C17 *)

\* C17: the end-of-wave test (which reads the last record) and the
\* conversion (which reads the first record) run on a wave that is not
\* empty: whenever a call is at or past the test, the wave holds at least
\* the record that this call appended.
C17_NonEmptyAtTest ==
    pc \in {"appended", "converted"} =>
        /\ Len(events_wave) >= 1
        /\ \E i \in 1..Len(events_wave) : events_wave[i] = call

\* the test is about to run on the wave of a first call
C17_Witness ==
    /\ pc = "appended"
    /\ events_wave = <<Event("tree_update", T)>>
    /\ call = Event("tree_update", T)

-----------------------------------------------------------------------------
(* C18 *)

AllElements == Nodes \cup Trees \cup {None}

\* the waves with the event types of the wave, with any elements
SameKindWaves(wave) ==
    {[i \in 1..Len(wave) |-> Event(wave[i].type, f[i])] :
        f \in {g \in [1..Len(wave) -> AllElements] :
                 \A i \in 1..Len(wave) : g[i] \in ElementsOf(wave[i].type)}}

\* C18: whether a call closes and clears the wave depends on the event types
\* in the wave only: at the end-of-wave step every wave with the same event
\* types and other elements has the same outcome.
C18_KindsOnly ==
    (pc = "appended" /\ is_wave_end(events_wave)) =>
        \A other \in SameKindWaves(events_wave) :
            convert_wave_to_sverchok_event(other, log_debug).raised
               = convert_wave_to_sverchok_event(events_wave, log_debug).raised

-----------------------------------------------------------------------------
(* C19 *)

\* C19: the records of the wave keep their positions: a step leaves the wave
\* as it is, appends the record of the new call, or removes all records at
\* the end of a call with a wave-ending type; and every call with a
\* wave-ending type that ends has removed them.
C19_RemovedByNextTerminating ==
    [][/\ \/ events_wave' = events_wave
          \/ events_wave' = Append(events_wave, call')
          \/ events_wave' = <<>> /\ call.type \in Terminating
       /\ (Returns /\ call'.type \in Terminating) => events_wave' = <<>>]_vars

-----------------------------------------------------------------------------
(* C20 *)

\* C20: whenever the conversion is about to run, the first record of the
\* wave has a wave-ending type if and only if the wave has exactly one
\* record.
C20_FirstTerminatingIffSingle ==
    (pc = "appended" /\ call.type \in Terminating) =>
        (events_wave[1].type \in Terminating <=> Len(events_wave) = 1)

====
